---- MODULE Spec2Model ----
(***************************************************************************)
(* Model of the Hindi OCR service: the remote-inference adapter            *)
(* (app/services/model_service.py), its lifecycle wiring (main.py) and the *)
(* image normalisation pipeline (app/services/image_processor.py).         *)
(***************************************************************************)
EXTENDS Integers, Sequences, FiniteSets, TLC

VARIABLES
    api_key,        \* settings.HUGGINGFACE_API_KEY, represented by its length
    constructed,    \* _model_service is not None
    headers,        \* ModelService.headers (set of header names)
    is_loaded,      \* ModelService.is_loaded
    prepared,       \* history: load_model() has completed on the service
    lifespan,       \* position of the lifespan context manager
    app_state,      \* app.state.model_service has been assigned
    calls,          \* extract_text coroutines suspended on their POST
    batch,          \* the batch_extract coroutine
    last,           \* record of the most recently completed operation
    max_dimension,  \* ImageProcessor.max_dimension
    image,          \* the image handed to prepare_image
    preprocess,     \* the preprocess flag of prepare_image
    prepared_image, \* what prepare_image returned
    debug,          \* settings.DEBUG
    http,           \* the HTTP request being served and its response
    b64             \* the string handed to base64_to_image and its outcome

vars == <<api_key, constructed, headers, is_loaded, prepared, lifespan,
          app_state, calls, batch, last,
          max_dimension, image, preprocess, prepared_image,
          debug, http, b64>>

svcVars == <<api_key, constructed, headers, is_loaded, prepared, lifespan,
             app_state, calls, batch, last>>

imgVars == <<max_dimension, image, preprocess, prepared_image>>

reqVars == <<debug, http, b64>>

----------------------------------------------------------------------------
(* Bounds *)

MaxCalls == 2       \* extract_text coroutines in flight at once
MaxBatch == 2       \* images in one batch_extract call
MaxTextLen == 1     \* characters in a generated_text value

MaxSide == 24       \* largest width or height of the small images
SmallMaxDimension == 13 \* a small max_dimension next to the configured one

Calls == 1..MaxCalls
ImageIds == 1..MaxBatch

----------------------------------------------------------------------------
(* Configuration: app/core/config.py *)

SettingsFields ==
    {"HOST", "PORT", "DEBUG", "HUGGINGFACE_API_KEY", "HUGGINGFACE_MODEL",
     "HUGGINGFACE_API_URL", "HUGGINGFACE_ROUTER_URL", "MAX_IMAGE_SIZE",
     "MAX_IMAGE_DIMENSION", "SUPPORTED_FORMATS", "ALLOWED_ORIGINS",
     "REQUEST_TIMEOUT", "API_TIMEOUT"}

\* Attribute access on the settings object: an unknown name raises
\* AttributeError.
HasSetting(name) == name \in SettingsFields

MAX_IMAGE_DIMENSION == 2048

\* len(self.api_key) > 10
AuthKeyThreshold == 10

KeyLengths == {0, AuthKeyThreshold, AuthKeyThreshold + 1}

----------------------------------------------------------------------------
(* Text values: sequences of characters *)

Chars == {" ", "a"}

Texts == UNION {[1..n -> Chars] : n \in 0..MaxTextLen}

RECURSIVE LStrip(_)
LStrip(s) == IF s # <<>> /\ Head(s) = " " THEN LStrip(Tail(s)) ELSE s

RECURSIVE RStrip(_)
RStrip(s) ==
    IF s # <<>> /\ s[Len(s)] = " " THEN RStrip(SubSeq(s, 1, Len(s) - 1)) ELSE s

\* str.strip()
Strip(s) == RStrip(LStrip(s))

----------------------------------------------------------------------------
(* What the backend can answer to one POST *)

OkShapes == {"dict", "list"}
EmptyShapes == {"dict_nofield", "empty_list", "scalar"}
ErrorStatuses == {403, 410, 503, 500, 404}

Response(st, sh, t) == [status |-> st, shape |-> sh, text |-> t]

Timeout == Response(0, "timeout", <<>>)
NoResponse == Response(0, "none", <<>>)

Responses ==
    {Response(200, sh, t) : sh \in OkShapes, t \in Texts}
    \cup {Response(200, sh, <<>>) : sh \in EmptyShapes \cup {"invalid"}}
    \cup {Response(st, "error_body", <<>>) : st \in ErrorStatuses}
    \cup {Timeout}

----------------------------------------------------------------------------
(* Outcomes of extract_text: a returned dict or a raised exception *)

Returned(text, confidence, device, error) ==
    [kind |-> "return", text |-> text, confidence |-> confidence,
     device |-> device, error |-> error,
     exc |-> "none", msg |-> "", detail |-> "", status |-> 0]

Raised(exc, msg, detail, status) ==
    [kind |-> "raise", text |-> <<>>, confidence |-> 0,
     device |-> "none", error |-> "",
     exc |-> exc, msg |-> msg, detail |-> detail, status |-> status]

HeadersOf(key) ==
    IF key > 0 /\ key > AuthKeyThreshold
    THEN {"Content-Type", "Authorization"}
    ELSE {"Content-Type"}

\* the readiness guard left out
NotReady_GuardMissing(loaded) == FALSE

\* if not self.is_loaded: raise RuntimeError(...)
NotReady(loaded) == ~loaded

NotReadyError ==
    Raised("RuntimeError",
           "Service not initialized. Call load_model() first.", "", 0)

\* response.json() followed by the isinstance dispatch
ParseGeneratedText(resp) ==
    CASE resp.shape = "invalid" ->
            Raised("JSONDecodeError", "Expecting value", "", 0)
      [] resp.shape \in OkShapes ->
            Returned(resp.text, 0, "none", "")
      [] OTHER ->
            Returned(<<>>, 0, "none", "")

Success(resp, device) ==
    LET parsed == ParseGeneratedText(resp) IN
    IF parsed.kind = "raise" THEN parsed
    ELSE Returned(Strip(parsed.text), 85, device, "")

\* 503 sent down the retry branch as well
IsAuthError_Includes503(status) ==
    status = 403 \/ status = 410 \/ status = 503

\* elif response.status_code == 403 or response.status_code == 410
IsAuthError(status) == status = 403 \/ status = 410

\* The elif branch for 403/410 sending the retry with the Authorization
\* header still in place.
RetryWithoutAuth_KeepsAuth(retry) ==
    [requests |-> << {"Content-Type", "Authorization"} >>,
     outcome |->
        CASE retry.shape = "timeout" ->
               Raised("TimeoutException", "", "", 0)
          [] retry.status = 200 -> Success(retry, "cloud-api-free")
          [] OTHER ->
               Raised("RuntimeError",
                      "API request failed even without auth", "",
                      retry.status)]

\* The elif branch for 403/410: build a client with settings.API_timeout,
\* POST again without Authorization.  retry is what the backend answers to
\* that POST when it is sent.
RetryWithoutAuth(retry) ==
    IF ~HasSetting("API_timeout")
    THEN [requests |-> <<>>,
          outcome |-> Raised("AttributeError",
                 "'Settings' object has no attribute 'API_timeout'", "", 0)]
    ELSE [requests |-> << {"Content-Type"} >>,
          outcome |->
             CASE retry.shape = "timeout" ->
                    Raised("TimeoutException", "", "", 0)
               [] retry.status = 200 -> Success(retry, "cloud-api-free")
               [] OTHER ->
                    Raised("RuntimeError",
                           "API request failed even without auth", "",
                           retry.status)]

ModelLoading ==
    Returned(<<>>, 0, "cloud-api",
             "Model is loading, please retry in 20-30 seconds")

\* The status dispatch inside the try block, applied to the answer to the
\* first POST.
HandleResponse(first, retry) ==
    CASE first.shape = "timeout" ->
            [requests |-> <<>>,
             outcome |-> Raised("TimeoutException", "", "", 0)]
      [] first.status = 200 ->
            [requests |-> <<>>, outcome |-> Success(first, "cloud-api")]
      [] IsAuthError(first.status) -> RetryWithoutAuth(retry)
      [] first.status = 503 ->
            [requests |-> <<>>, outcome |-> ModelLoading]
      [] OTHER ->
            [requests |-> <<>>,
             outcome |-> Raised("RuntimeError", "API request failed", "",
                                first.status)]

\* without the except Exception clause
WrapExceptions_NoCatchAll(o) ==
    CASE o.kind = "return" -> o
      [] o.exc = "TimeoutException" ->
            Raised("RuntimeError", "Request timeout - please try again",
                   "", 0)
      [] OTHER -> o

\* a catch-all that does not carry str(e)
WrapExceptions_DropsStatus(o) ==
    CASE o.kind = "return" -> o
      [] o.exc = "TimeoutException" ->
            Raised("RuntimeError", "Request timeout - please try again",
                   "", 0)
      [] OTHER ->
            Raised("RuntimeError", "OCR processing failed", "", 0)

\* without the except httpx.TimeoutException clause
WrapExceptions_NoTimeoutClause(o) ==
    CASE o.kind = "return" -> o
      [] OTHER ->
            Raised("RuntimeError", "OCR processing failed", o.msg, o.status)

\* except httpx.TimeoutException / except Exception
WrapExceptions(o) ==
    CASE o.kind = "return" -> o
      [] o.exc = "TimeoutException" ->
            Raised("RuntimeError", "Request timeout - please try again",
                   "", 0)
      [] OTHER ->
            Raised("RuntimeError", "OCR processing failed", o.msg, o.status)

\* self.headers after a call that dropped Authorization for good on an
\* auth error
HeadersAfterCall_DropsAuth(hdrs, first) ==
    IF IsAuthError(first.status) THEN hdrs \ {"Authorization"} ELSE hdrs

\* self.headers after a call: extract_text assigns no attribute of self,
\* the retry is given a header dict of its own.
HeadersAfterCall(hdrs, first) == hdrs

\* The part of extract_text that runs after the first POST was answered.
AfterFirstPost(first, retry) ==
    LET h == HandleResponse(first, retry) IN
    [requests |-> h.requests, outcome |-> WrapExceptions(h.outcome)]

\* A whole extract_text call.
ExtractText(loaded, hdrs, first, retry) ==
    IF NotReady(loaded)
    THEN [requests |-> <<>>, outcome |-> NotReadyError]
    ELSE LET a == AfterFirstPost(first, retry) IN
         [requests |-> <<hdrs>> \o a.requests, outcome |-> a.outcome]

\* The backend's answer to the unauthenticated POST only matters when the
\* first answer is 403 or 410.
RetryAnswers(first) ==
    IF first.shape # "timeout" /\ IsAuthError(first.status)
    THEN Responses ELSE {NoResponse}

----------------------------------------------------------------------------
(* Python float arithmetic, as far as resize_image uses it.  A positive    *)
(* float is [int, frac, exp] with value (int + 0.frac) * 2^exp, frac four  *)
(* limbs of LimbBits bits (52 fraction bits); with int = 1 this is the     *)
(* 53-bit significand of an IEEE 754 binary64.  Division and               *)
(* multiplication round to nearest, ties to even.                          *)

LimbBits == 13

Base == 2 ^ LimbBits

RECURSIVE BitLen(_)
BitLen(n) == IF n = 0 THEN 0 ELSE 1 + BitLen(n \div 2)

\* Scale a/b into [1, 2): a/b = (n/d) * 2^exp with d <= n < 2d.
RECURSIVE Normalise(_, _, _)
Normalise(a, b, e) ==
    IF a >= 2 * b THEN Normalise(a, 2 * b, e + 1)
    ELSE IF a < b THEN Normalise(2 * a, b, e - 1)
    ELSE [n |-> a, d |-> b, exp |-> e]

\* Drop the k lowest fraction bits of f, rounding to nearest: up when the
\* dropped part is more than half of the last kept bit, to even when it is
\* exactly half.
RoundAt(f, k, moreThanHalf, exactlyHalf) ==
    LET x == f.frac[3] * Base + f.frac[4]
        kept == x \div (2 ^ k)
        up == IF moreThanHalf \/ (exactlyHalf /\ kept % 2 = 1) THEN 1 ELSE 0
        y == (kept + up) * (2 ^ k)
        s2 == f.frac[2] + y \div (Base * Base)
        s1 == f.frac[1] + s2 \div Base
    IN [int |-> f.int + s1 \div Base,
        frac |-> <<s1 % Base, s2 % Base, (y \div Base) % Base, y % Base>>,
        exp |-> f.exp]

\* a / b for positive ints a, b: long division, 52 fraction bits
FloatDiv(a, b) ==
    LET s == Normalise(a, b, 0)
        r0 == s.n - s.d
        l1 == (r0 * Base) \div s.d
        r1 == (r0 * Base) % s.d
        l2 == (r1 * Base) \div s.d
        r2 == (r1 * Base) % s.d
        l3 == (r2 * Base) \div s.d
        r3 == (r2 * Base) % s.d
        l4 == (r3 * Base) \div s.d
        r4 == (r3 * Base) % s.d
    IN RoundAt([int |-> 1, frac |-> <<l1, l2, l3, l4>>, exp |-> s.exp],
               0, 2 * r4 > s.d, 2 * r4 = s.d)

\* h * f for a positive int h and a float f: the exact product, then
\* rounded back to 53 significant bits
FloatMulInt(h, f) ==
    LET c4 == f.frac[4] * h
        c3 == f.frac[3] * h + c4 \div Base
        c2 == f.frac[2] * h + c3 \div Base
        c1 == f.frac[1] * h + c2 \div Base
        p == [int |-> f.int * h + c1 \div Base,
              frac |-> <<c1 % Base, c2 % Base, c3 % Base, c4 % Base>>,
              exp |-> f.exp]
        k == BitLen(p.int) - 1
        low == (p.frac[3] * Base + p.frac[4]) % (2 ^ k)
        half == IF k = 0 THEN 1 ELSE 2 ^ (k - 1)
    IN RoundAt(p, k, k > 0 /\ low > half, k > 0 /\ low = half)

\* int(f): truncation of a positive float
FloatToInt(f) ==
    IF f.exp >= 0
    THEN f.int * (2 ^ f.exp) + f.frac[1] \div (2 ^ (LimbBits - f.exp))
    ELSE IF -f.exp >= 2 * LimbBits THEN 0
    ELSE f.int \div (2 ^ (-f.exp))

\* round(side * max_dim / longer), halves upward
ScaledSide_Rounded(side, max_dim, longer) ==
    (2 * side * max_dim + longer) \div (2 * longer)

\* int(side * (max_dim / longer))
ScaledSide(side, max_dim, longer) ==
    FloatToInt(FloatMulInt(side, FloatDiv(max_dim, longer)))

----------------------------------------------------------------------------
(* ImageProcessor: an image is its colour mode and its size *)

Modes == {"L", "RGB", "RGBA"}

LargeSides ==
    {561, MAX_IMAGE_DIMENSION, MAX_IMAGE_DIMENSION + 1, 2215, 2244,
     2 * MAX_IMAGE_DIMENSION + 1}

Sides == (1..MaxSide) \cup LargeSides

MaxDimensions == {SmallMaxDimension, MAX_IMAGE_DIMENSION}

Images == [mode : Modes, width : Sides, height : Sides]

\* the conversion left out
ConvertRGB_Skipped(img) == img

\* if image.mode != 'RGB': image = image.convert('RGB')
ConvertRGB(img) ==
    IF img.mode # "RGB" THEN [img EXCEPT !.mode = "RGB"] ELSE img

\* the comparison the wrong way round
WithinBounds_Inverted(max_dim, width, height) ==
    width > max_dim /\ height > max_dim

\* if width <= self.max_dimension and height <= self.max_dimension
WithinBounds(max_dim, width, height) ==
    width <= max_dim /\ height <= max_dim

\* Calculate new dimensions maintaining aspect ratio
NewSize(max_dim, width, height) ==
    IF width > height
    THEN [width |-> max_dim,
          height |-> ScaledSide(height, max_dim, width)]
    ELSE [width |-> ScaledSide(width, max_dim, height),
          height |-> max_dim]

\* Image.resize refuses a size with a side below 1 (ValueError).
ResizeImage(max_dim, img) ==
    IF WithinBounds(max_dim, img.width, img.height)
    THEN [raised |-> FALSE, image |-> img]
    ELSE LET size == NewSize(max_dim, img.width, img.height) IN
         IF size.width < 1 \/ size.height < 1
         THEN [raised |-> TRUE, image |-> img]
         ELSE [raised |-> FALSE,
               image |-> [img EXCEPT !.width = size.width,
                                     !.height = size.height]]

\* preprocess_for_ocr handing back the grayscale image after an exception
PreprocessForOcr_KeepsGray(img, fault) == [img EXCEPT !.mode = "L"]

\* preprocess_for_ocr: grayscale, adaptive threshold, denoise and
\* Image.fromarray of the 2-D array; on any exception the input image.
PreprocessForOcr(img, fault) ==
    IF fault THEN img ELSE [img EXCEPT !.mode = "L"]

\* prepare_image
PrepareImage(max_dim, img, pre, fault) ==
    LET resized == ResizeImage(max_dim, ConvertRGB(img)) IN
    IF resized.raised
    THEN [pc |-> "done", raised |-> TRUE, fault |-> FALSE,
          resized |-> resized.image, image |-> resized.image]
    ELSE [pc |-> "done", raised |-> FALSE, fault |-> pre /\ fault,
          resized |-> resized.image,
          image |-> IF pre THEN PreprocessForOcr(resized.image, fault)
                    ELSE resized.image]

----------------------------------------------------------------------------
(* ModelService lifecycle *)

\* __init__: self.is_loaded = True
LoadedAfterInit == TRUE

\* load_model assigning False
LoadedAfterLoadModel_Unset(loaded) == FALSE

\* load_model: self.is_loaded = True
LoadedAfterLoadModel(loaded) == TRUE

\* cleanup: self.is_loaded = False
LoadedAfterCleanup(loaded) == FALSE

\* get_model_info
ModelInfo(key, loaded) ==
    [is_loaded |-> loaded,
     service_type |-> "huggingface-inference-api",
     has_api_key |-> key > 0,
     rate_limit |-> IF ~(key > 0) THEN "Free tier (no key)"
                    ELSE "Authenticated"]

----------------------------------------------------------------------------
(* State of the coroutines and of the observation record *)

IdleCall == [pc |-> "idle", sent |-> {}, loaded |-> FALSE,
             prepared |-> FALSE]

IdleBatch == [pc |-> "idle", images |-> <<>>, idx |-> 0,
              results |-> <<>>, outcomes |-> <<>>]

NoOp == [op |-> "none"]

CallDone(wasLoaded, wasPrepared, first, retry, r) ==
    [op |-> "extract_text", loaded |-> wasLoaded,
     prepared |-> wasPrepared,
     first |-> first, retry |-> retry,
     requests |-> r.requests, outcome |-> r.outcome]

\* except Exception in batch_extract: the error-tagged entry
ErrorTagged(o) ==
    [Returned(<<>>, 0, "none", o.msg) EXCEPT
        !.detail = o.detail, !.status = o.status]

BatchEntry(o) == IF o.kind = "raise" THEN ErrorTagged(o) ELSE o

\* a failed image left out of the results
BatchAppend_SkipFailed(results, o) ==
    IF o.kind = "raise" THEN results ELSE Append(results, o)

\* results.append(...) on either path of the loop body
BatchAppend(results, o) == Append(results, BatchEntry(o))

\* The images argument: n distinct images, named by their position.
BatchImages == {[i \in 1..n |-> i] : n \in 0..MaxBatch}

----------------------------------------------------------------------------
(* base64 strings: app/services/image_processor.py, base64_to_image *)

MaxB64Len == 6      \* characters in a string handed to base64_to_image

\* "," ends a data-URL prefix, ":" is outside the base64 alphabet, "A" and
\* "B" are alphabet characters and "=" is the pad character.
B64Chars == {",", ":", "A", "B", "="}

B64Strings == UNION {[1..n -> B64Chars] : n \in 0..MaxB64Len}

\* ',' in base64_string
HasComma(s) == \E i \in 1..Len(s) : s[i] = ","

FirstComma(s) ==
    CHOOSE i \in 1..Len(s) : s[i] = "," /\ \A j \in 1..(i - 1) : s[j] # ","

BeforeFirstComma(s) == SubSeq(s, 1, FirstComma(s) - 1)

AfterFirstComma(s) == SubSeq(s, FirstComma(s) + 1, Len(s))

\* base64_string.split(',')[1]: the second field of the string, which ends
\* at the second comma when there is one
SplitField1(s) ==
    LET rest == AfterFirstComma(s)
    IN  IF HasComma(rest) THEN BeforeFirstComma(rest) ELSE rest

\* The six-bit value of an alphabet character; 64 for any other character.
Sextet(ch) == CASE ch = "A" -> 0 [] ch = "B" -> 1 [] OTHER -> 64

\* base64.b64decode(s) without validation, one character at a time:
\* characters outside the alphabet are skipped, a complete pad sequence ends
\* the decoding, and a character arriving with quad_pos 1, 2, 3 emits a byte.
DecoderStart ==
    [quad_pos |-> 0, leftchar |-> 0, pads |-> 0, bin |-> <<>>, done |-> FALSE]

DecodeChar(st, ch) ==
    IF st.done THEN st
    ELSE IF ch = "=" THEN
        IF st.quad_pos >= 2
        THEN IF st.quad_pos + st.pads + 1 >= 4
             THEN [st EXCEPT !.done = TRUE]
             ELSE [st EXCEPT !.pads = @ + 1]
        ELSE st
    ELSE IF Sextet(ch) >= 64 THEN st
    ELSE LET v == Sextet(ch)
         IN  CASE st.quad_pos = 0 ->
                    [st EXCEPT !.quad_pos = 1, !.leftchar = v, !.pads = 0]
               [] st.quad_pos = 1 ->
                    [st EXCEPT !.quad_pos = 2, !.pads = 0,
                               !.bin = Append(@, (st.leftchar * 4
                                                  + (v \div 16)) % 256),
                               !.leftchar = v % 16]
               [] st.quad_pos = 2 ->
                    [st EXCEPT !.quad_pos = 3, !.pads = 0,
                               !.bin = Append(@, (st.leftchar * 16
                                                  + (v \div 4)) % 256),
                               !.leftchar = v % 4]
               [] OTHER ->
                    [st EXCEPT !.quad_pos = 0, !.pads = 0,
                               !.bin = Append(@, (st.leftchar * 64 + v) % 256),
                               !.leftchar = 0]

RECURSIVE DecodeFrom(_, _)
DecodeFrom(st, s) ==
    IF s = <<>> THEN st ELSE DecodeFrom(DecodeChar(st, Head(s)), Tail(s))

\* binascii.Error when the data characters do not fill their last quantum
B64Decode(s) ==
    LET st == DecodeFrom(DecoderStart, s)
    IN  IF st.done \/ st.quad_pos = 0
        THEN [ok |-> TRUE, bytes |-> st.bin]
        ELSE [ok |-> FALSE, bytes |-> <<>>]

\* Image.open recognises a file by its leading bytes; a leading zero byte
\* stands for a known signature.
IsImageFile(bytes) == bytes # <<>> /\ bytes[1] = 0

\* bytes_to_image: Image.open(io.BytesIO(image_bytes)), any failure becomes
\* ValueError
BytesToImage(bytes) ==
    IF IsImageFile(bytes)
    THEN [raised |-> FALSE, exc |-> "", msg |-> "", image |-> bytes]
    ELSE [raised |-> TRUE, exc |-> "ValueError",
          msg |-> "Invalid image data", image |-> <<>>]

\* base64.b64decode then Image.open, any failure becomes ValueError
OpenDecoded(payload) ==
    LET d == B64Decode(payload)
    IN  IF d.ok /\ IsImageFile(d.bytes)
        THEN [raised |-> FALSE, exc |-> "", msg |-> "", image |-> d.bytes]
        ELSE [raised |-> TRUE, exc |-> "ValueError",
              msg |-> "Invalid base64 image data", image |-> <<>>]

Base64ToImage(s) == OpenDecoded(IF HasComma(s) THEN SplitField1(s) ELSE s)

----------------------------------------------------------------------------
(* HTTP endpoints: app/routers/ocr.py and main.py *)

SUPPORTED_FORMATS == {"image/jpeg", "image/png", "image/jpg"}

ContentTypes == {"image/png", "text/plain"}

\* File contents: one that Image.open recognises and one it does not.
Files == {<<0>>, <<4>>}

\* What the GET of extract-url ends in.
Downloads == {"ok", "http_error", "network_error"}

\* image_base64 values: a payload, the payload behind a prefix, and a
\* string that is not an image.
B64Samples ==
    {<<"A", "A", "A", "A">>, <<":", ",", "A", "A", "A", "A">>, <<":">>}

\* Mode and size of the picture inside a decodable file.
Pictures ==
    {[mode |-> "RGB", width |-> 1, height |-> 1],
     [mode |-> "RGBA", width |-> MAX_IMAGE_DIMENSION + 1, height |-> 1]}

Endpoints == {"upload", "url", "base64", "model_info", "root"}

ExtractionEndpoints == {"upload", "url", "base64"}

Request(endpoint, big, ctype, download, contents, b64str, picture, pre) ==
    [endpoint |-> endpoint, too_large |-> big,
     content_type |-> ctype, download |-> download,
     contents |-> contents, image_base64 |-> b64str,
     picture |-> picture, preprocess |-> pre]

DefaultPicture == [mode |-> "RGB", width |-> 1, height |-> 1]

Requests ==
    {Request("upload", big, ct, "none", f, <<>>, pic, TRUE) :
        big \in BOOLEAN, ct \in ContentTypes, f \in Files, pic \in Pictures}
    \cup {Request("url", big, "none", d, f, <<>>, pic, pre) :
        big \in BOOLEAN, d \in Downloads, f \in Files, pic \in Pictures,
        pre \in BOOLEAN}
    \cup {Request("base64", FALSE, "none", "none", <<>>, b, pic, pre) :
        b \in B64Samples, pic \in Pictures, pre \in BOOLEAN}
    \cup {Request(e, FALSE, "none", "none", <<>>, <<>>, DefaultPicture, FALSE) :
        e \in {"model_info", "root"}}

\* str(e) of a raised exception
ExcText(o) == <<o.msg, o.detail, o.status>>

NoExcText == <<>>

\* The fields of the OCRResponse schema.
OCRResponseFields ==
    {"success", "text", "confidence", "processing_time", "image_info",
     "device"}

\* OCRResponse(success=True, text=result["text"], ...): HTTP 200
Envelope(result) ==
    [status |-> 200, success |-> TRUE, text |-> result.text,
     confidence |-> result.confidence, device |-> result.device,
     hint |-> IF "error" \in OCRResponseFields THEN result.error ELSE "",
     detail |-> "", exc_text |-> NoExcText]

\* HTTPException(status_code, detail): detail is a fixed text followed by
\* exc_text, the text of an exception, when the handler appends one.
HttpError(status, detail, exc_text) ==
    [status |-> status, success |-> FALSE, text |-> <<>>, confidence |-> 0,
     device |-> "none", hint |-> "", detail |-> detail,
     exc_text |-> exc_text]

\* A 200 answer that is not an OCRResponse.
Plain ==
    [status |-> 200, success |-> TRUE, text |-> <<>>, confidence |-> 0,
     device |-> "none", hint |-> "", detail |-> "", exc_text |-> NoExcText]

\* global_exception_handler
GlobalExceptionHandler(dbg, exc) ==
    [status |-> 500, success |-> FALSE, text |-> <<>>, confidence |-> 0,
     device |-> "none", hint |-> "",
     detail |-> IF dbg THEN "" ELSE "An unexpected error occurred",
     exc_text |-> IF dbg THEN ExcText(exc) ELSE NoExcText]

\* The checks a handler makes before it decodes the image: the detail of
\* the HTTPException(400) it raises, or "" when it goes on.
Validation(req) ==
    CASE req.endpoint = "upload" /\ req.too_large -> "File too large"
      [] req.endpoint = "upload"
           /\ req.content_type \notin SUPPORTED_FORMATS ->
            "Unsupported file format"
      [] req.endpoint = "url" /\ req.download = "http_error" ->
            "Failed to download image"
      [] req.endpoint = "url" /\ req.download = "ok" /\ req.too_large ->
            "Image too large"
      [] OTHER -> ""

NoException == Returned(<<>>, 0, "none", "")

\* What an extraction handler raises between its validation and the POST
\* of extract_text: the download, bytes_to_image or base64_to_image,
\* prepare_image, the lookup of app.state.model_service and the readiness
\* guard of extract_text.
BeforePost(req, hasState, loaded) ==
    CASE req.download = "network_error" ->
            Raised("ClientError", "Cannot connect to host", "", 0)
      [] req.endpoint = "base64"
           /\ Base64ToImage(req.image_base64).raised ->
            Raised("ValueError", "Invalid base64 image data", "", 0)
      [] req.endpoint # "base64" /\ BytesToImage(req.contents).raised ->
            Raised("ValueError", "Invalid image data", "", 0)
      [] PrepareImage(MAX_IMAGE_DIMENSION, req.picture, req.preprocess,
                      FALSE).raised ->
            Raised("ValueError", "height and width must be > 0", "", 0)
      [] ~hasState ->
            Raised("AttributeError",
                   "'State' object has no attribute 'model_service'", "", 0)
      [] NotReady(loaded) -> NotReadyError
      [] OTHER -> NoException

\* The fixed part of the detail of a handler's HTTPException(500)
ErrorDetail(endpoint) ==
    CASE endpoint = "upload" -> "OCR processing failed: "
      [] endpoint = "url" -> "Failed to process image from URL: "
      [] OTHER -> "Failed to process base64 image: "

\* The except clauses of the handlers: except Exception gives
\* HTTPException(500, detail + str(e)); extract_text_from_base64 has
\* except ValueError first, giving HTTPException(400, str(e)).
Failure(endpoint, o) ==
    IF endpoint = "base64" /\ o.exc = "ValueError"
    THEN HttpError(400, "", ExcText(o))
    ELSE HttpError(500, ErrorDetail(endpoint), ExcText(o))

\* get_model_info of the router
ModelInfoEndpoint(hasState) ==
    IF hasState THEN Plain
    ELSE HttpError(500, "Failed to get model information", NoExcText)

\* root(): reads settings.MODEL_NAME; an exception leaving the handler
\* reaches global_exception_handler
Root(dbg) ==
    IF HasSetting("MODEL_NAME") THEN Plain
    ELSE GlobalExceptionHandler(dbg,
            Raised("AttributeError",
                   "'Settings' object has no attribute 'MODEL_NAME'",
                   "", 0))

\* A request that has been answered.
Answered(req, first, requests, response) ==
    [pc |-> "done", request |-> req, first |-> first,
     requests |-> requests, response |-> response]

----------------------------------------------------------------------------
(* Initial state: the module has been imported, nothing has run yet *)

InitService ==
    /\ api_key \in KeyLengths
    /\ constructed = FALSE
    /\ headers = {}
    /\ is_loaded = FALSE
    /\ prepared = FALSE
    /\ lifespan = "not_started"
    /\ app_state = FALSE
    /\ calls = [c \in Calls |-> IdleCall]
    /\ batch = IdleBatch
    /\ last = NoOp

InitImageIdle ==
    /\ max_dimension = MAX_IMAGE_DIMENSION
    /\ image = [mode |-> "RGB", width |-> 1, height |-> 1]
    /\ preprocess = FALSE
    /\ prepared_image = [pc |-> "idle"]

InitRequestIdle ==
    /\ debug = FALSE
    /\ http = [pc |-> "idle"]
    /\ b64 = [pc |-> "idle"]

Init == InitService /\ InitImageIdle /\ InitRequestIdle

----------------------------------------------------------------------------
(* Actions of the service *)

\* lifespan, up to the yield: get_model_service(), load_model(),
\* app.state.model_service = service
LifespanStartup ==
    /\ lifespan # "running"
    /\ constructed' = TRUE
    /\ headers' = IF constructed THEN headers ELSE HeadersOf(api_key)
    /\ is_loaded' = LoadedAfterLoadModel(
                        IF constructed THEN is_loaded ELSE LoadedAfterInit)
    /\ prepared' = TRUE
    /\ app_state' = TRUE
    /\ lifespan' = "running"
    /\ last' = [op |-> "load_model"]
    /\ UNCHANGED <<api_key, calls, batch>>
    /\ UNCHANGED <<imgVars, reqVars>>

\* lifespan, the finally block: _model_service.cleanup()
LifespanShutdown ==
    /\ lifespan = "running"
    /\ is_loaded' = IF constructed THEN LoadedAfterCleanup(is_loaded)
                    ELSE is_loaded
    /\ lifespan' = "stopped"
    /\ last' = [op |-> "cleanup"]
    /\ UNCHANGED <<api_key, constructed, headers, prepared, app_state,
                   calls, batch>>
    /\ UNCHANGED <<imgVars, reqVars>>

\* lifespan when get_model_service() raises while constructing the
\* service: the except branch logs and yields, nothing is stored
LifespanStartupFails ==
    /\ lifespan # "running"
    /\ ~constructed
    /\ lifespan' = "running"
    /\ last' = [op |-> "startup_failed"]
    /\ UNCHANGED <<api_key, constructed, headers, is_loaded, prepared,
                   app_state, calls, batch>>
    /\ UNCHANGED <<imgVars, reqVars>>

\* health_check without its outer except: the exception reaches
\* global_exception_handler
HealthResponse_Propagates(lazy, loaded, fault) ==
    IF lazy /\ fault
    THEN [status |-> 500, health |-> "none", model_loaded |-> FALSE,
          note |-> ""]
    ELSE [status |-> 200, health |-> "healthy",
          model_loaded |-> IF lazy THEN loaded ELSE TRUE, note |-> ""]

\* The body health_check returns; fault is get_model_service() raising on
\* the lazy path, which the outer except turns into the fallback body.
HealthResponse(lazy, loaded, fault) ==
    IF lazy /\ fault
    THEN [status |-> 200, health |-> "healthy", model_loaded |-> TRUE,
          note |-> "Using lazy initialization"]
    ELSE [status |-> 200, health |-> "healthy",
          model_loaded |-> IF lazy THEN loaded ELSE TRUE, note |-> ""]

\* GET /health
HealthCheck(fault) ==
    /\ fault => (~app_state /\ ~constructed)
    /\ LET lazy == ~app_state
           loaded == IF constructed THEN is_loaded ELSE LoadedAfterInit
           r == HealthResponse(lazy, loaded, fault)
       IN
       /\ constructed' = (constructed \/ (lazy /\ ~fault))
       /\ headers' = IF lazy /\ ~constructed /\ ~fault
                     THEN HeadersOf(api_key) ELSE headers
       /\ is_loaded' = IF lazy /\ ~constructed /\ ~fault
                       THEN LoadedAfterInit ELSE is_loaded
       /\ last' = [op |-> "health_check", status |-> r.status,
                   health |-> r.health, model_loaded |-> r.model_loaded,
                   note |-> r.note]
    /\ UNCHANGED <<api_key, prepared, lifespan, app_state, calls, batch>>
    /\ UNCHANGED <<imgVars, reqVars>>

\* ModelService.get_model_info
GetModelInfo ==
    /\ constructed
    /\ last' = [op |-> "get_model_info",
                info |-> ModelInfo(api_key, is_loaded)]
    /\ UNCHANGED <<api_key, constructed, headers, is_loaded, prepared,
                   lifespan, app_state, calls, batch>>
    /\ UNCHANGED <<imgVars, reqVars>>

\* extract_text up to its first await: the readiness guard, then the POST
\* with self.headers.  Single calls and a batch are driven one kind at a
\* time; single calls overlap each other.
ExtractSend(c) ==
    /\ constructed
    /\ batch.pc = "idle"
    /\ calls[c].pc = "idle"
    /\ IF NotReady(is_loaded)
       THEN /\ last' = CallDone(is_loaded, prepared,
                          NoResponse, NoResponse,
                          ExtractText(is_loaded, headers,
                                      NoResponse, NoResponse))
            /\ UNCHANGED calls
       ELSE /\ calls' = [calls EXCEPT ![c] =
                            [pc |-> "awaiting", sent |-> headers,
                             loaded |-> is_loaded, prepared |-> prepared]]
            /\ UNCHANGED last
    /\ UNCHANGED <<api_key, constructed, headers, is_loaded, prepared,
                   lifespan, app_state, batch>>
    /\ UNCHANGED <<imgVars, reqVars>>

\* extract_text from the answer to its first POST to its return or raise
ExtractReceive(c, first, retry) ==
    /\ calls[c].pc = "awaiting"
    /\ last' = CallDone(calls[c].loaded, calls[c].prepared, first, retry,
                        ExtractText(calls[c].loaded, calls[c].sent,
                                    first, retry))
    /\ calls' = [calls EXCEPT ![c] = IdleCall]
    /\ headers' = HeadersAfterCall(headers, first)
    /\ UNCHANGED <<api_key, constructed, is_loaded, prepared,
                   lifespan, app_state, batch>>
    /\ UNCHANGED <<imgVars, reqVars>>

\* batch_extract: results = []
BatchStart(images) ==
    /\ constructed
    /\ batch.pc = "idle"
    /\ \A c \in Calls : calls[c].pc = "idle"
    /\ batch' = [pc |-> "running", images |-> images, idx |-> 1,
                 results |-> <<>>, outcomes |-> <<>>]
    /\ last' = [op |-> "batch_extract_started"]
    /\ UNCHANGED <<api_key, constructed, headers, is_loaded, prepared,
                   lifespan, app_state, calls>>
    /\ UNCHANGED <<imgVars, reqVars>>

\* batch_extract: one iteration of the loop
BatchStep(first, retry) ==
    /\ batch.pc = "running"
    /\ batch.idx <= Len(batch.images)
    /\ LET r == ExtractText(is_loaded, headers, first, retry) IN
       batch' = [batch EXCEPT
                    !.idx = @ + 1,
                    !.results = BatchAppend(@, r.outcome),
                    !.outcomes = Append(@,
                        [image |-> batch.images[batch.idx],
                         outcome |-> r.outcome])]
    /\ UNCHANGED <<api_key, constructed, headers, is_loaded, prepared,
                   lifespan, app_state, calls, last>>
    /\ UNCHANGED <<imgVars, reqVars>>

\* batch_extract: return results
BatchReturn ==
    /\ batch.pc = "running"
    /\ batch.idx > Len(batch.images)
    /\ last' = [op |-> "batch_extract", images |-> batch.images,
                results |-> batch.results, outcomes |-> batch.outcomes]
    /\ batch' = IdleBatch
    /\ UNCHANGED <<api_key, constructed, headers, is_loaded, prepared,
                   lifespan, app_state, calls>>
    /\ UNCHANGED <<imgVars, reqVars>>

\* One request's image goes through prepare_image.
PrepareImageCall(fault) ==
    /\ prepared_image.pc = "idle"
    /\ prepared_image' = PrepareImage(max_dimension, image, preprocess, fault)
    /\ UNCHANGED <<max_dimension, image, preprocess>>
    /\ UNCHANGED <<svcVars, reqVars>>

\* One string goes through base64_to_image.
DecodeBase64 ==
    /\ b64.pc = "ready"
    /\ b64' = [pc |-> "done", input |-> b64.input,
               result |-> Base64ToImage(b64.input)]
    /\ UNCHANGED <<svcVars, imgVars, debug, http>>

\* A handler from the arrival of its request to its first await on the
\* backend, or to its response when it ends before that.
ReceiveRequest(req) ==
    /\ http.pc # "awaiting"
    /\ http' =
         CASE req.endpoint = "root" ->
                Answered(req, NoResponse, <<>>, Root(debug))
           [] req.endpoint = "model_info" ->
                Answered(req, NoResponse, <<>>, ModelInfoEndpoint(app_state))
           [] Validation(req) # "" ->
                Answered(req, NoResponse, <<>>,
                         HttpError(400, Validation(req), NoExcText))
           [] BeforePost(req, app_state, is_loaded).kind = "raise" ->
                Answered(req, NoResponse, <<>>,
                         Failure(req.endpoint,
                                 BeforePost(req, app_state, is_loaded)))
           [] OTHER ->
                [pc |-> "awaiting", request |-> req, sent |-> headers]
    /\ UNCHANGED <<svcVars, imgVars, debug, b64>>

\* The handler from the backend's answer to its response: the rest of
\* extract_text, then OCRResponse or the except clauses.
SendResponse(first, retry) ==
    /\ http.pc = "awaiting"
    /\ LET a == AfterFirstPost(first, retry)
       IN  http' = Answered(http.request, first,
                            <<http.sent>> \o a.requests,
                            IF a.outcome.kind = "return"
                            THEN Envelope(a.outcome)
                            ELSE Failure(http.request.endpoint, a.outcome))
    /\ UNCHANGED <<svcVars, imgVars, debug, b64>>

\* The adapter under a lifespan whose startup succeeds; the startup that
\* fails is part of SpecHttp.
Next ==
    \/ LifespanStartup
    \/ LifespanShutdown
    \/ \E fault \in BOOLEAN : HealthCheck(fault)
    \/ GetModelInfo
    \/ \E c \in Calls : ExtractSend(c)
    \/ \E c \in Calls : \E first \in Responses :
          \E retry \in RetryAnswers(first) : ExtractReceive(c, first, retry)
    \/ \E images \in BatchImages : BatchStart(images)
    \/ \E first \in Responses :
          \E retry \in RetryAnswers(first) : BatchStep(first, retry)
    \/ BatchReturn

Spec == Init /\ [][Next]_vars

\* The image pipeline on its own: every image, flag and max_dimension.
InitImage ==
    /\ InitService
    /\ api_key = 0
    /\ max_dimension \in MaxDimensions
    /\ image \in Images
    /\ preprocess \in BOOLEAN
    /\ prepared_image = [pc |-> "idle"]
    /\ InitRequestIdle

NextImage ==
    \E fault \in (IF preprocess THEN BOOLEAN ELSE {FALSE}) :
        PrepareImageCall(fault)

SpecImage == InitImage /\ [][NextImage]_vars

\* base64_to_image on its own: every string up to MaxB64Len characters.
InitBase64 ==
    /\ InitService
    /\ api_key = 0
    /\ InitImageIdle
    /\ debug = FALSE
    /\ http = [pc |-> "idle"]
    /\ b64 \in {[pc |-> "ready", input |-> s] : s \in B64Strings}

NextBase64 == DecodeBase64

SpecBase64 == InitBase64 /\ [][NextBase64]_vars

\* The HTTP surface: the lifespan with a startup that succeeds or fails,
\* the health check and the endpoints, with DEBUG on or off.
InitHttp ==
    /\ InitService
    /\ InitImageIdle
    /\ debug \in BOOLEAN
    /\ http = [pc |-> "idle"]
    /\ b64 = [pc |-> "idle"]

NextHttp ==
    \/ LifespanStartup
    \/ LifespanStartupFails
    \/ LifespanShutdown
    \/ \E fault \in BOOLEAN : HealthCheck(fault)
    \/ \E req \in Requests : ReceiveRequest(req)
    \/ \E first \in Responses :
          \E retry \in RetryAnswers(first) : SendResponse(first, retry)

SpecHttp == InitHttp /\ [][NextHttp]_vars

----------------------------------------------------------------------------
(* Properties of extract_text *)

IsCall == last.op = "extract_text"

AnsweredAuthError ==
    /\ IsCall
    /\ last.first.shape = "error_body"
    /\ last.first.status \in {403, 410}

\* C1: when the first POST is answered 403 or 410 and the backend answers
\* the unauthenticated retry with 200, extract_text returns a successful
\* result whose text is the generated text of the retry response.
C1_RetrySuccessReturned ==
    (AnsweredAuthError /\ last.retry.status = 200
        /\ last.retry.shape \in OkShapes)
    => /\ last.outcome.kind = "return"
       /\ last.outcome.error = ""
       /\ last.outcome.text = Strip(last.retry.text)

C3_ModelLoadingReturned ==
    (IsCall /\ last.first.shape = "error_body" /\ last.first.status = 503)
    => /\ last.outcome.kind = "return"
       /\ last.outcome.text = <<>>
       /\ last.outcome.error # ""
       /\ Len(last.requests) = 1

C3_Witness ==
    /\ IsCall
    /\ last.first.shape = "error_body"
    /\ last.first.status = 503
    /\ last.outcome.kind = "return"

C5_NotReadyBeforeLoadModel ==
    (IsCall /\ ~last.prepared)
    => /\ last.outcome = NotReadyError
       /\ last.requests = <<>>

\* C5 as amended: every extract_text call entered while is_loaded is false
\* fails with the not-ready error and issues no outbound request; a
\* constructed service on which load_model has not run is already ready,
\* so is_loaded is false only after cleanup.
C5_NotReadyWhenNotLoaded ==
    /\ (IsCall /\ ~last.loaded)
       => /\ last.outcome = NotReadyError
          /\ last.requests = <<>>
    /\ (constructed /\ ~prepared /\ lifespan # "stopped") => is_loaded
    /\ \A c \in Calls : calls[c].pc = "awaiting" => calls[c].loaded

C5_Witness ==
    /\ IsCall
    /\ ~last.loaded
    /\ last.outcome = NotReadyError
    /\ last.requests = <<>>

----------------------------------------------------------------------------
(* Properties of batch_extract *)

\* C6: batch_extract returns a sequence as long as its input in which
\* position i holds the outcome of image i: the result of extract_text
\* when it returned, an error-tagged result (empty text, error message)
\* when it raised.
C6_BatchPreservesOrder ==
    /\ batch.pc = "running" => Len(batch.results) = batch.idx - 1
    /\ last.op = "batch_extract"
       => /\ Len(last.results) = Len(last.images)
          /\ Len(last.outcomes) = Len(last.images)
          /\ \A i \in 1..Len(last.images) :
               /\ last.outcomes[i].image = last.images[i]
               /\ last.outcomes[i].outcome.kind = "return"
                  => last.results[i] = last.outcomes[i].outcome
               /\ last.outcomes[i].outcome.kind = "raise"
                  => /\ last.results[i].kind = "return"
                     /\ last.results[i].text = <<>>
                     /\ last.results[i].error = last.outcomes[i].outcome.msg
                     /\ last.results[i].error # ""

C6_Witness ==
    /\ last.op = "batch_extract"
    /\ Len(last.images) = 2
    /\ last.outcomes[1].outcome.kind = "raise"
    /\ last.outcomes[2].outcome.kind = "return"
    /\ last.outcomes[2].outcome.text = <<"a">>
    /\ last.results[2].text = <<"a">>

----------------------------------------------------------------------------
(* Properties of the readiness flag *)

\* C7 as stated: once Ready the service stays Ready under every operation.
C7_ReadyIsTerminal == [][is_loaded => is_loaded']_vars

\* C7 as amended: is_loaded is true from construction and after every
\* load_model; extract_text, batch_extract, get_model_info and the health
\* check leave it unchanged; the lifespan's cleanup is the one operation
\* that returns it to false, and a later load_model makes it true again.
C7_OnlyCleanupLeavesReady ==
    [][/\ (is_loaded /\ ~is_loaded')
          => (lifespan = "running" /\ lifespan' = "stopped")
       /\ (~is_loaded /\ is_loaded')
          => (~constructed \/ lifespan' = "running")
       /\ (lifespan' = "running" /\ constructed') => is_loaded'
       /\ (constructed' /\ ~constructed) => is_loaded']_vars

C7_Witness ==
    /\ constructed
    /\ prepared
    /\ lifespan = "stopped"
    /\ ~is_loaded

----------------------------------------------------------------------------
(* Properties of extract_text: timeouts, the retry and the adapter's state *)

TimedOut == IsCall /\ last.first.shape = "timeout"

C18_AdapterStateUnchanged ==
    /\ [][((last'.op = "extract_text" /\ last' # last) \/ calls' # calls)
          => UNCHANGED <<api_key, headers, is_loaded>>]_vars
    /\ [](/\ constructed => headers = HeadersOf(api_key)
          /\ \A c \in Calls :
                calls[c].pc = "awaiting"
                => calls[c].sent = HeadersOf(api_key)
          /\ (IsCall /\ last.loaded)
             => /\ last.requests[1] = HeadersOf(api_key)
                /\ last.outcome =
                      AfterFirstPost(last.first, last.retry).outcome)

C18_Witness ==
    /\ AnsweredAuthError
    /\ "Authorization" \in last.requests[1]
    /\ "Authorization" \in headers
    /\ \E c \in Calls :
          calls[c].pc = "awaiting" /\ "Authorization" \in calls[c].sent

----------------------------------------------------------------------------
(* Properties of the health check *)

\* C14: the health check answers HTTP 200 with a body in every reachable
\* state of the process (before the lifespan startup, after a successful
\* startup, after a failed startup, after cleanup) and never propagates
\* an exception.
C14_HealthAlwaysAnswers ==
    last.op = "health_check"
    => /\ last.status = 200
       /\ last.health = "healthy"
       /\ last.model_loaded \in BOOLEAN

C14_Witness ==
    /\ last.op = "health_check"
    /\ lifespan = "running"
    /\ ~app_state
    /\ ~constructed
    /\ last.status = 200
    /\ last.note = "Using lazy initialization"

----------------------------------------------------------------------------
(* Properties of the image pipeline *)

Prepared == prepared_image.pc = "done"

Oversized == image.width > max_dimension \/ image.height > max_dimension

\* C8 as stated: every image prepare_image returns is in 3-channel colour
\* mode, for every input mode and both values of the preprocess flag.
C8_AlwaysThreeChannel ==
    (Prepared /\ ~prepared_image.raised) => prepared_image.image.mode = "RGB"

\* C8 as amended: the image prepare_image returns is in 3-channel mode
\* when preprocess is false or preprocessing failed; when preprocess is
\* true and preprocessing succeeds it is single-channel (mode L).
C8_ModeAfterPrepare ==
    (Prepared /\ ~prepared_image.raised)
    => prepared_image.image.mode =
          (IF preprocess /\ ~prepared_image.fault THEN "L" ELSE "RGB")

C8_Witness ==
    /\ Prepared
    /\ ~prepared_image.raised
    /\ image.mode = "RGBA"
    /\ preprocess
    /\ ~prepared_image.fault
    /\ prepared_image.image.mode = "L"

\* C9: for every image with width or height above max_dimension, the
\* image resize_image returns has its longer side equal to max_dimension
\* and its shorter side within less than one pixel of
\* shorter * max_dimension / longer; a square image gets both sides equal
\* to max_dimension.
C9_ResizeExact ==
    (Prepared /\ Oversized /\ ~prepared_image.raised)
    => LET r == prepared_image.resized
           longer == IF image.width > image.height
                     THEN image.width ELSE image.height
           shorter == IF image.width > image.height
                      THEN image.height ELSE image.width
           rlonger == IF image.width > image.height
                      THEN r.width ELSE r.height
           rshorter == IF image.width > image.height
                       THEN r.height ELSE r.width
       IN /\ rlonger = max_dimension
          /\ rshorter * longer - shorter * max_dimension < longer
          /\ shorter * max_dimension - rshorter * longer < longer
          /\ image.width = image.height
             => (r.width = max_dimension /\ r.height = max_dimension)

\* C10: an image whose width and height are both at most max_dimension
\* keeps its width and height through resize_image and prepare_image, and
\* no image comes out larger than it went in.
C10_NoResizeWithinBounds ==
    (Prepared /\ ~prepared_image.raised)
    => /\ ~Oversized
          => /\ prepared_image.resized.width = image.width
             /\ prepared_image.resized.height = image.height
             /\ prepared_image.image.width = image.width
             /\ prepared_image.image.height = image.height
       /\ prepared_image.image.width <= image.width
       /\ prepared_image.image.height <= image.height

C10_Witness ==
    /\ Prepared
    /\ ~prepared_image.raised
    /\ image.width = max_dimension
    /\ image.height < max_dimension
    /\ prepared_image.image.width = max_dimension
    /\ prepared_image.image.height = image.height

LongerSide ==
    IF image.width > image.height THEN image.width ELSE image.height

ShorterSide ==
    IF image.width > image.height THEN image.height ELSE image.width

ResizedShorterSide ==
    IF image.width > image.height
    THEN prepared_image.resized.height ELSE prepared_image.resized.width

ScaledDown == Prepared /\ Oversized /\ ~prepared_image.raised

\* C16 as stated: when an image is scaled down, the shorter side of the
\* result is shorter * max_dimension / longer rounded to the nearest
\* integer, for every pair of input dimensions.
C16_RoundedToNearest ==
    ScaledDown
    => /\ 2 * ResizedShorterSide * LongerSide
             <= 2 * ShorterSide * max_dimension + LongerSide
       /\ 2 * ResizedShorterSide * LongerSide
             >= 2 * ShorterSide * max_dimension - LongerSide

\* C16 as amended: the shorter side of the result is
\* shorter * max_dimension / longer with its fraction cut off (rounded
\* down, never to the nearest integer above); where that quotient is a
\* whole number the result is the quotient or one pixel less.
C16_RoundedDown ==
    ScaledDown
    => LET q == (ShorterSide * max_dimension) \div LongerSide
           whole == (ShorterSide * max_dimension) % LongerSide = 0
       IN  \/ ResizedShorterSide = q
           \/ whole /\ ResizedShorterSide = q - 1

C16_Witness ==
    /\ ScaledDown
    /\ 2 * ((ShorterSide * max_dimension) % LongerSide) > LongerSide
    /\ ResizedShorterSide = (ShorterSide * max_dimension) \div LongerSide
    /\ ResizedShorterSide >= 1

\* C12: when preprocess is set and a step of preprocessing fails,
\* prepare_image returns without error and the image it returns is the
\* resized, colour-converted image that preprocessing received.
C12_FallbackOnFault ==
    (Prepared /\ preprocess /\ prepared_image.fault)
    => /\ ~prepared_image.raised
       /\ prepared_image.image = prepared_image.resized
       /\ prepared_image.image.mode = "RGB"
       /\ prepared_image.image = ResizeImage(max_dimension,
                                             ConvertRGB(image)).image

C12_Witness ==
    /\ Prepared
    /\ preprocess
    /\ prepared_image.fault
    /\ image.mode = "RGBA"
    /\ Oversized
    /\ prepared_image.image.mode = "RGB"
    /\ prepared_image.image.width < image.width

----------------------------------------------------------------------------
(* Properties of base64_to_image *)

\* C11: a string with a data-URL prefix (any text, then a comma) gives the
\* same outcome as the payload after its first comma gives alone: exactly
\* the text up to and including the first comma is removed, and everything
\* after that comma is decoded.
C11_PrefixStripped ==
    (b64.pc = "done" /\ HasComma(b64.input)) =>
        /\ b64.result = Base64ToImage(AfterFirstComma(b64.input))
        /\ b64.result = OpenDecoded(AfterFirstComma(b64.input))

----------------------------------------------------------------------------
(* Properties of the HTTP endpoints *)

Served == http.pc = "done"

\* The request carries input that its endpoint cannot decode as an image.
Undecodable ==
    /\ http.request.endpoint \in ExtractionEndpoints
    /\ http.request.download # "network_error"
    /\ IF http.request.endpoint = "base64"
       THEN Base64ToImage(http.request.image_base64).raised
       ELSE BytesToImage(http.request.contents).raised

\* C13: on each of the three extraction endpoints, input that cannot be
\* decoded as an image is answered with a client error (4xx), not a server
\* error, and no backend request is made for it.
C13_UndecodableIsClientError ==
    (Served /\ Undecodable)
    => /\ http.response.status \in 400..499
       /\ http.requests = <<>>

\* C19: when the backend answers 503, the caller of an extraction endpoint
\* receives HTTP 200 with success=true and empty text, and the response
\* carries the retry hint the adapter produced.
C19_ModelLoadingCarriesHint ==
    (Served /\ http.first.status = 503)
    => /\ http.response.status = 200
       /\ http.response.success
       /\ http.response.text = <<>>
       /\ http.response.hint = ModelLoading.error

\* C20: with DEBUG off no 500-class response carries the text of the
\* underlying exception, so two failures that differ only in the exception
\* message get identical responses, on the extraction endpoints and through
\* the global exception handler.
C20_NoExceptionTextWhenDebugOff ==
    (Served /\ ~debug /\ http.response.status >= 500)
    => http.response.exc_text = NoExcText

----------------------------------------------------------------------------
(* Properties of get_model_info *)

\* C21: for every configured API key, the metadata of get_model_info
\* agrees with what extract_text sends: has_api_key is true and rate_limit
\* is "Authenticated" exactly when the first request of extract_text
\* carries an Authorization header, and rate_limit is the free tier
\* exactly when it does not.
C21_InfoAgreesWithHeaders ==
    last.op = "get_model_info"
    => /\ last.info.has_api_key <=> "Authorization" \in headers
       /\ last.info.rate_limit = "Authenticated"
             <=> "Authorization" \in headers
       /\ last.info.rate_limit = "Free tier (no key)"
             <=> "Authorization" \notin headers
       /\ \A c \in Calls :
             calls[c].pc = "awaiting"
             => (last.info.has_api_key
                   <=> "Authorization" \in calls[c].sent)

----------------------------------------------------------------------------
(* Properties of the computed size *)

\* C22: for every image with width >= 1 and height >= 1, the dimensions
\* resize_image computes are both at least 1 pixel, so the resize step
\* never asks for a zero-sized image, whatever the aspect ratio.
C22_SidesAtLeastOne ==
    (Prepared /\ Oversized /\ image.width >= 1 /\ image.height >= 1)
    => /\ NewSize(max_dimension, image.width, image.height).width >= 1
       /\ NewSize(max_dimension, image.width, image.height).height >= 1
       /\ ~prepared_image.raised


====
